---------------------------- MODULE Spec2Model ----------------------------
(***************************************************************************)
(* Debug-credential codec of spsdk (spsdk/dat/debug_credential.py).        *)
(*                                                                         *)
(* A byte string is a sequence of numbers 0..255.  An optional value       *)
(* (Python None or a value) is a sequence of length 0 or 1.  A big integer *)
(* (an ECDSA r or s) is its minimal big-endian byte string, because its    *)
(* value does not fit the model checker's machine integers.                *)
(***************************************************************************)
EXTENDS Integers, Sequences, FiniteSets, TLC

VARIABLES
    cred,      \* the credential of the session, None before it is built
    other,     \* the credential the last parse returned
    buf,       \* the bytes the last export returned
    raw,       \* the bytes the Signature Provider returned to the last sign()
    signedOk,  \* the last sign() returned normally
    eqRes,     \* what the last cred == other returned: "True", "False", "none"
    ret,       \* what the last _get_class or info call returned
    req,       \* the (version, soc_class) pair of the resolve or build request
    cfg,       \* the configuration of the build request
    handed,    \* the data the last sign() handed to the Signature Provider
    parg,      \* the (data, offset) arguments of the last parse
    client,    \* EL2GOTPClient: its download_timeout and delay, None before it is made
    call,      \* the method of the client that was called
    response,  \* json_body["content"] of the last provisionings response
    status,    \* what the last get_generation_status returned
    pc,        \* where download_provisionings stands
    clock,     \* the time since _wait_for_provisionings made its Timeout
    split,     \* the arguments and the result of split_uuids_to_jobs
    raised,    \* the error the client's method raised, "ok" for none
    lastOp,    \* the operation called last
    err        \* the error it raised, "ok" for a normal return

dcVars == <<cred, other, buf, raw, signedOk, eqRes, ret, req, cfg, handed, parg, lastOp, err>>
el2goVars == <<client, call, response, status, pc, clock, split, raised>>
vars == <<dcVars, el2goVars>>

(***************************************************************************)
(* Bounds of the model.                                                    *)
(***************************************************************************)
MaxKeys == 3
MaxSocc == 5

(***************************************************************************)
(* Optional values and results of calls.                                   *)
(***************************************************************************)
None == <<>>
Some(x) == <<x>>

Ok(v) == [err |-> "ok", val |-> <<v>>]
Fail(e) == [err |-> e, val |-> <<>>]
Val(r) == r.val[1]

(***************************************************************************)
(* Bytes: struct.pack / struct.unpack_from of the standard library.        *)
(***************************************************************************)
Rep(b, n) == [i \in 1..n |-> b]

\* pack('<Ns', b): b cut to N bytes, or filled with zero bytes up to N.
PackS(b, n) == IF Len(b) >= n THEN SubSeq(b, 1, n) ELSE b \o Rep(0, n - Len(b))

\* pack('<H', x) and pack('<L', x), x within the width.
PackH(x) == <<x % 256, (x \div 256) % 256>>
PackL(x) == <<x % 256, (x \div 256) % 256, (x \div 65536) % 256, (x \div 16777216) % 256>>

\* unpack_from('<H', data, off)[0] and unpack_from('<L', data, off)[0]; off is 0-based.
UnpackH(data, off) == data[off + 1] + 256 * data[off + 2]
UnpackL(data, off) ==
    data[off + 1] + 256 * data[off + 2] + 65536 * data[off + 3] + 16777216 * data[off + 4]

\* unpack_from('<Ns', data, off)[0]
UnpackS(data, off, n) == SubSeq(data, off + 1, off + n)

RECURSIVE BitOr(_, _)
BitOr(a, b) ==
    IF a = 0 THEN b
    ELSE IF b = 0 THEN a
    ELSE (IF a % 2 = 1 \/ b % 2 = 1 THEN 1 ELSE 0) + 2 * BitOr(a \div 2, b \div 2)


(***************************************************************************)
(* Key-Material Adapter (spsdk.crypto, spsdk.dat.utils) and the digest of  *)
(* spsdk.utils.crypto.backend_internal.  A key is [alg, key_size, id]; the *)
(* id stands for the key's numbers and fills its bytes.                    *)
(***************************************************************************)
KeyTypes ==
    { [alg |-> "RSA", key_size |-> 2048], [alg |-> "RSA", key_size |-> 4096],
      [alg |-> "ECC", key_size |-> 256], [alg |-> "ECC", key_size |-> 384],
      [alg |-> "ECC", key_size |-> 521] }

Key(kt, id) == [alg |-> kt.alg, key_size |-> kt.key_size, id |-> id]

\* int.to_bytes(length, 'big') of the integer whose minimal bytes are m.
ToBytes(m, length) ==
    IF Len(m) > length THEN Fail("OverflowError") ELSE Ok(Rep(0, length - Len(m)) \o m)

\* Bytes of one affine coordinate of an ECC key, of the RSA modulus and exponent.
CoordBytes(key) == (key.key_size + 7) \div 8
KeyX(key) == Rep(16 * key.id + 1, CoordBytes(key))
KeyY(key) == Rep(16 * key.id + 2, CoordBytes(key))
KeyModulus(key) == Rep(16 * key.id + 3, key.key_size \div 8)
KeyExponent == <<1, 0, 1>>

\* ecc_key_to_bytes(key, length): X then Y, each zero-padded to length.
ecc_key_to_bytes(key, length) ==
    LET x == ToBytes(KeyX(key), length)
        y == ToBytes(KeyY(key), length)
    IN  IF x.err # "ok" THEN x ELSE IF y.err # "ok" THEN y ELSE Ok(Val(x) \o Val(y))

\* rsa_key_to_bytes(key, exp_length): the exponent padded to exp_length, then the modulus.
rsa_key_to_bytes(key, exp_length) ==
    LET e == ToBytes(KeyExponent, exp_length)
    IN  IF e.err # "ok" THEN e ELSE Ok(Val(e) \o KeyModulus(key))

\* internal_backend.hash(data, algorithm): a digest of n bytes that depends on the data.
Hash(data, n) == Rep((data[1] + 3 * data[Len(data)] + Len(data)) % 256, n)

\* bytearray slice assignment arr[a:b] = v (a, b are 0-based and clipped to the length).
Min(a, b) == IF a <= b THEN a ELSE b
SliceAssign(arr, a, b, v) ==
    SubSeq(arr, 1, Min(a, Len(arr))) \o v \o SubSeq(arr, Min(b, Len(arr)) + 1, Len(arr))

(***************************************************************************)
(* The concrete classes and their class attributes.                        *)
(***************************************************************************)
FixedClasses ==
    { "DebugCredentialRSA2048", "DebugCredentialRSA4096", "DebugCredentialECC256",
      "DebugCredentialECC384", "DebugCredentialECC521" }
N4Classes == { "DebugCredentialECC256N4Analog", "DebugCredentialECC384N4Analog" }
Classes == FixedClasses \cup N4Classes

IsN4(klass) == klass \in N4Classes
IsRSA(klass) == klass \in { "DebugCredentialRSA2048", "DebugCredentialRSA4096" }
IsECC(klass) == ~IsRSA(klass)

\* VERSION: the N4 classes set none and inherit '0.0' of the base class.
VERSION(klass) ==
    CASE klass = "DebugCredentialRSA2048" -> "1.0"
      [] klass = "DebugCredentialRSA4096" -> "1.1"
      [] klass = "DebugCredentialECC256" -> "2.0"
      [] klass = "DebugCredentialECC384" -> "2.1"
      [] klass = "DebugCredentialECC521" -> "2.2"
      [] OTHER -> "0.0"

\* [int(v) for v in VERSION.split('.')]
VersionInts(version) ==
    CASE version = "1.0" -> <<1, 0>>
      [] version = "1.1" -> <<1, 1>>
      [] version = "2.0" -> <<2, 0>>
      [] version = "2.1" -> <<2, 1>>
      [] version = "2.2" -> <<2, 2>>
      [] version = "9.9" -> <<9, 9>>
      [] OTHER -> <<0, 0>>

\* "{}.{}".format(major, minor)
FormatVersion(major, minor) ==
    CASE <<major, minor>> = <<1, 0>> -> "1.0"
      [] <<major, minor>> = <<1, 1>> -> "1.1"
      [] <<major, minor>> = <<2, 0>> -> "2.0"
      [] <<major, minor>> = <<2, 1>> -> "2.1"
      [] <<major, minor>> = <<2, 2>> -> "2.2"
      [] <<major, minor>> = <<9, 9>> -> "9.9"
      [] <<major, minor>> = <<0, 0>> -> "0.0"
      [] OTHER -> "?.?"

\* Field widths of FORMAT_NO_SIG / FORMAT of the fixed classes.
RotMetaWidth(klass) == IF IsRSA(klass) THEN 128 ELSE 528
DckWidth(klass) ==
    CASE klass = "DebugCredentialRSA2048" -> 260
      [] klass = "DebugCredentialRSA4096" -> 516
      [] OTHER -> 132
RotPubWidth(klass) ==
    CASE klass = "DebugCredentialRSA2048" -> 260
      [] klass = "DebugCredentialRSA4096" -> 516
      [] OTHER -> 4
SigWidth(klass) ==
    CASE klass = "DebugCredentialRSA2048" -> 256
      [] klass = "DebugCredentialRSA4096" -> 512
      [] OTHER -> 132

HASH_LENGTH(klass) ==
    CASE klass = "DebugCredentialECC256N4Analog" -> 32
      [] klass = "DebugCredentialECC384N4Analog" -> 48
      [] OTHER -> 0

\* Coordinate widths that follow the curve of the class.
CORD_LENGTH_Curve(klass) ==
    CASE klass \in {"DebugCredentialECC256", "DebugCredentialECC256N4Analog"} -> 32
      [] klass \in {"DebugCredentialECC384", "DebugCredentialECC384N4Analog"} -> 48
      [] OTHER -> 66

CORD_LENGTH(klass) ==
    CASE klass = "DebugCredentialECC256N4Analog" -> 32
      [] klass = "DebugCredentialECC384N4Analog" -> 48
      [] OTHER -> 66

(***************************************************************************)
(* Credential Layout Registry.                                             *)
(***************************************************************************)
\* A registry that falls back to a default layout for an unknown version.
version_mapping_Default(version) ==
    CASE version = "1.1" -> Ok("DebugCredentialRSA4096")
      [] version = "2.0" -> Ok("DebugCredentialECC256")
      [] version = "2.1" -> Ok("DebugCredentialECC384")
      [] version = "2.2" -> Ok("DebugCredentialECC521")
      [] OTHER -> Ok("DebugCredentialRSA2048")

version_mapping(version) ==
    CASE version = "1.0" -> Ok("DebugCredentialRSA2048")
      [] version = "1.1" -> Ok("DebugCredentialRSA4096")
      [] version = "2.0" -> Ok("DebugCredentialECC256")
      [] version = "2.1" -> Ok("DebugCredentialECC384")
      [] version = "2.2" -> Ok("DebugCredentialECC521")
      [] OTHER -> Fail("UnsupportedVariant")

n4analog_version_mapping(version) ==
    CASE version = "2.0" -> Ok("DebugCredentialECC256N4Analog")
      [] version = "2.1" -> Ok("DebugCredentialECC384N4Analog")
      [] OTHER -> Fail("UnsupportedVariant")

\* A registry that ignores soc_class.
get_class_ByVersionOnly(version, socc) == version_mapping(version)

get_class(version, socc) ==
    IF socc = 4 THEN n4analog_version_mapping(version) ELSE version_mapping(version)

(***************************************************************************)
(* RoT Metadata Builder and the encoders of debugger_key and rot_pub.      *)
(***************************************************************************)
\* DebugCredentialRSA._get_rot_meta: the loop body for the keys from index on (0-based).
RECURSIVE RsaRotMetaFrom(_, _, _)
RsaRotMetaFrom(rot_meta, rot_pub_keys, index) ==
    IF index >= Len(rot_pub_keys) THEN Ok(rot_meta)
    ELSE LET rot == rot_pub_keys[index + 1]
         IN  IF rot.alg # "RSA" THEN Fail("AlgorithmMismatch")
             ELSE LET data == rsa_key_to_bytes(rot, 3)
                  IN  IF data.err # "ok" THEN data
                      ELSE RsaRotMetaFrom(
                               SliceAssign(rot_meta, index * 32, (index + 1) * 32,
                                           Hash(Val(data), 32)),
                               rot_pub_keys, index + 1)

get_rot_meta_RSA(used_root_cert, rot_pub_keys) ==
    RsaRotMetaFrom(Rep(0, 128), rot_pub_keys, 0)

\* DebugCredentialECC._get_rot_meta
RECURSIVE EccRotMetaFrom(_, _, _)
EccRotMetaFrom(rot_meta, rot_pub_keys, index) ==
    IF index >= Len(rot_pub_keys) THEN Ok(rot_meta)
    ELSE LET rot == rot_pub_keys[index + 1]
         IN  IF rot.alg # "ECC" THEN Fail("AlgorithmMismatch")
             ELSE LET data == ecc_key_to_bytes(rot, 66)
                  IN  IF data.err # "ok" THEN data
                      ELSE EccRotMetaFrom(
                               SliceAssign(rot_meta, index * 132, (index + 1) * 132,
                                           Val(data)),
                               rot_pub_keys, index + 1)

get_rot_meta_ECC(used_root_cert, rot_pub_keys) ==
    EccRotMetaFrom(Rep(0, 528), rot_pub_keys, 0)

\* N4AnalogMixin.create_ctrk_table
RECURSIVE CtrkTableFrom(_, _, _)
CtrkTableFrom(ctrk_table, rot_pub_keys, index) ==
    IF index >= Len(rot_pub_keys) THEN Ok(ctrk_table)
    ELSE LET pub_key == rot_pub_keys[index + 1]
         IN  IF pub_key.alg # "ECC" THEN Fail("AlgorithmMismatch")
             ELSE LET data == ecc_key_to_bytes(pub_key, pub_key.key_size \div 8)
                  IN  IF data.err # "ok" THEN data
                      ELSE IF pub_key.key_size \notin {256, 384, 512}
                      THEN Fail("UnsupportedHash")
                      ELSE CtrkTableFrom(
                               ctrk_table \o Hash(Val(data), pub_key.key_size \div 8),
                               rot_pub_keys, index + 1)

\* A table that holds a hash for every key but the first.
create_ctrk_table_AllButFirst(rot_pub_keys) ==
    IF Len(rot_pub_keys) = 1 THEN Ok(<<>>) ELSE CtrkTableFrom(<<>>, rot_pub_keys, 1)
create_ctrk_table(rot_pub_keys) ==
    IF Len(rot_pub_keys) = 1 THEN Ok(<<>>) ELSE CtrkTableFrom(<<>>, rot_pub_keys, 0)

\* A flags word with the key index and the key count in each other's place.
calculate_flags_Swapped(used_root_cert, rot_pub_keys) ==
    LET low == BitOr(used_root_cert * 16, Len(rot_pub_keys) * 256)
        b == PackL(low)
    IN  <<b[1], b[2], b[3], BitOr(b[4], 128)>>
\* N4AnalogMixin.calculate_flags: pack('<L', 1 << 31 | used_root_cert << 8 | count << 4).
\* Bit 31 is the top bit of the last byte; the other bits stay below 2^31.
calculate_flags(used_root_cert, rot_pub_keys) ==
    LET low == BitOr(used_root_cert * 256, Len(rot_pub_keys) * 16)
        b == PackL(low)
    IN  <<b[1], b[2], b[3], BitOr(b[4], 128)>>

get_rot_meta_N4(used_root_cert, rot_pub_keys) ==
    LET ctrk_hash_table == create_ctrk_table(rot_pub_keys)
    IN  IF ctrk_hash_table.err # "ok" THEN ctrk_hash_table
        ELSE Ok(calculate_flags(used_root_cert, rot_pub_keys) \o Val(ctrk_hash_table))

get_rot_meta(klass, used_root_cert, rot_pub_keys) ==
    IF IsN4(klass) THEN get_rot_meta_N4(used_root_cert, rot_pub_keys)
    ELSE IF IsRSA(klass) THEN get_rot_meta_RSA(used_root_cert, rot_pub_keys)
    ELSE get_rot_meta_ECC(used_root_cert, rot_pub_keys)

\* _get_dck of DebugCredentialRSA, DebugCredentialECC and N4AnalogMixin
get_dck(klass, dck_key) ==
    IF IsN4(klass)
    THEN IF dck_key.alg # "ECC" THEN Fail("AlgorithmMismatch")
         ELSE ecc_key_to_bytes(dck_key, dck_key.key_size \div 8)
    ELSE IF IsRSA(klass)
    THEN IF dck_key.alg # "RSA" THEN Fail("AlgorithmMismatch")
         ELSE rsa_key_to_bytes(dck_key, 4)
    ELSE IF dck_key.alg # "ECC" THEN Fail("AlgorithmMismatch")
         ELSE ecc_key_to_bytes(dck_key, 66)

\* The dict {256: 1, 386: 2, 521: 3} of DebugCredentialECC._get_rot_pub
curve_index(key_size) ==
    CASE key_size = 256 -> Ok(1)
      [] key_size = 386 -> Ok(2)
      [] key_size = 521 -> Ok(3)
      [] OTHER -> Fail("KeyError")

\* A rot_pub that is the full key for every fixed class and the compact pair
\* for the variable family.
get_rot_pub_ByFamily(klass, rot_pub_id, rot_pub_keys) ==
    IF rot_pub_id >= Len(rot_pub_keys) THEN Fail("IndexError")
    ELSE LET pub_key == rot_pub_keys[rot_pub_id + 1]
         IN  IF IsN4(klass)
             THEN IF pub_key.alg # "ECC" THEN Fail("AlgorithmMismatch")
                  ELSE LET ci == curve_index(pub_key.key_size)
                       IN  IF ci.err # "ok" THEN ci
                           ELSE Ok(PackH(rot_pub_id) \o PackH(Val(ci)))
             ELSE IF IsRSA(klass)
             THEN IF pub_key.alg # "RSA" THEN Fail("AlgorithmMismatch")
                  ELSE rsa_key_to_bytes(pub_key, 4)
             ELSE IF pub_key.alg # "ECC" THEN Fail("AlgorithmMismatch")
                  ELSE ecc_key_to_bytes(pub_key, 66)
\* _get_rot_pub of DebugCredentialRSA, DebugCredentialECC and N4AnalogMixin
get_rot_pub(klass, rot_pub_id, rot_pub_keys) ==
    IF rot_pub_id >= Len(rot_pub_keys) THEN Fail("IndexError")
    ELSE LET pub_key == rot_pub_keys[rot_pub_id + 1]
         IN  IF IsN4(klass)
             THEN IF pub_key.alg # "ECC" THEN Fail("AlgorithmMismatch")
                  ELSE ecc_key_to_bytes(pub_key, pub_key.key_size \div 8)
             ELSE IF IsRSA(klass)
             THEN IF pub_key.alg # "RSA" THEN Fail("AlgorithmMismatch")
                  ELSE rsa_key_to_bytes(pub_key, 4)
             ELSE IF pub_key.alg # "ECC" THEN Fail("AlgorithmMismatch")
                  ELSE LET ci == curve_index(pub_key.key_size)
                       IN  IF ci.err # "ok" THEN ci
                           ELSE Ok(PackH(rot_pub_id) \o PackH(Val(ci)))

(***************************************************************************)
(* The credential object: its class and its instance attributes.  The      *)
(* attribute signature_provider holds a provider, holds None, or is gone   *)
(* from the instance dictionary.                                           *)
(***************************************************************************)
NoProvider == "None"
NoAttribute == "<no attribute>"
Providers == {"P1"}

DebugCredential(klass, socc, uuid, rot_meta, dck_pub, cc_socu, cc_vu, cc_beacon, rot_pub, signature, signature_provider) ==
    [klass |-> klass, socc |-> socc, uuid |-> uuid, rot_meta |-> rot_meta,
     dck_pub |-> dck_pub, cc_socu |-> cc_socu, cc_vu |-> cc_vu, cc_beacon |-> cc_beacon,
     rot_pub |-> rot_pub, signature |-> signature,
     signature_provider |-> signature_provider]

\* DebugCredential.create_from_yaml_config
create_from_yaml_config(version, yaml_config) ==
    LET k == get_class(version, yaml_config.socc)
    IN  IF k.err # "ok" THEN k
        ELSE LET klass == Val(k)
                 rot_meta == get_rot_meta(klass, yaml_config.rot_id, yaml_config.rot_meta)
                 dck_pub == get_dck(klass, yaml_config.dck)
                 rot_pub == get_rot_pub(klass, yaml_config.rot_id, yaml_config.rot_meta)
             IN  IF rot_meta.err # "ok" THEN rot_meta
                 ELSE IF dck_pub.err # "ok" THEN dck_pub
                 ELSE IF rot_pub.err # "ok" THEN rot_pub
                 ELSE Ok(DebugCredential(klass, yaml_config.socc, yaml_config.uuid,
                                         Val(rot_meta), Val(dck_pub), yaml_config.cc_socu,
                                         yaml_config.cc_vu, yaml_config.cc_beacon,
                                         Val(rot_pub), None, yaml_config.sign_provider))

(***************************************************************************)
(* The signature the provider returns for an ECC key: the DER encoding     *)
(* SEQUENCE { INTEGER r, INTEGER s }, read back by                         *)
(* cryptography's decode_dss_signature.                                    *)
(***************************************************************************)
DerInt(m) ==
    LET body == IF m[1] >= 128 THEN <<0>> \o m ELSE m
    IN  <<2, Len(body)>> \o body

DerLen(n) == IF n < 128 THEN <<n>> ELSE <<129, n>>

DerEncode(r, s) ==
    LET content == DerInt(r) \o DerInt(s)
    IN  <<48>> \o DerLen(Len(content)) \o content

\* The INTEGER at 1-based position p of sig: [ok, m (its minimal bytes), next].
DerIntAt(sig, p) ==
    IF p + 2 > Len(sig) \/ sig[p] # 2 \/ sig[p + 1] = 0 \/ sig[p + 1] >= 128
       \/ p + 1 + sig[p + 1] > Len(sig)
    THEN [ok |-> FALSE, m |-> <<>>, next |-> 0]
    ELSE LET n == sig[p + 1]
             body == SubSeq(sig, p + 2, p + 1 + n)
         IN  IF body[1] >= 128 \/ (n > 1 /\ body[1] = 0 /\ body[2] < 128)
             THEN [ok |-> FALSE, m |-> <<>>, next |-> 0]
             ELSE [ok |-> TRUE,
                   m |-> IF n > 1 /\ body[1] = 0 THEN Tail(body) ELSE body,
                   next |-> p + 2 + n]

decode_dss_signature(sig) ==
    IF Len(sig) < 3 \/ sig[1] # 48 THEN Fail("MalformedSignature")
    ELSE LET long == sig[2] >= 128
             hdr == IF long THEN 3 ELSE 2
             n == IF long THEN sig[3] ELSE sig[2]
         IN  IF (long /\ (sig[2] # 129 \/ sig[3] < 128)) \/ Len(sig) # hdr + n
             THEN Fail("MalformedSignature")
             ELSE LET r == DerIntAt(sig, hdr + 1)
                  IN  IF ~r.ok THEN Fail("MalformedSignature")
                      ELSE LET s == DerIntAt(sig, r.next)
                           IN  IF ~s.ok \/ s.next # Len(sig) + 1
                               THEN Fail("MalformedSignature")
                               ELSE Ok(<<r.m, s.m>>)

\* ecc_public_numbers_to_bytes(public_numbers, length): x and y at the fixed width.
ecc_public_numbers_to_bytes(x, y, length) ==
    LET xb == ToBytes(x, length)
        yb == ToBytes(y, length)
    IN  IF xb.err # "ok" THEN xb ELSE IF yb.err # "ok" THEN yb ELSE Ok(Val(xb) \o Val(yb))

(***************************************************************************)
(* Serialization.                                                          *)
(***************************************************************************)
Present(signature) == signature # None /\ signature[1] # <<>>

PackVersion(klass) ==
    PackH(VersionInts(VERSION(klass))[1]) \o PackH(VersionInts(VERSION(klass))[2])

\* A payload that packs every class in the order of the variable family.
get_data_to_sign_OneOrder(c) ==
    PackVersion(c.klass) \o PackL(c.socc) \o PackS(c.uuid, 16)
    \o PackL(c.cc_socu) \o PackL(c.cc_vu) \o PackL(c.cc_beacon)
    \o PackS(c.rot_meta, IF IsN4(c.klass) THEN Len(c.rot_meta) ELSE RotMetaWidth(c.klass))
    \o PackS(c.rot_pub, IF IsN4(c.klass) THEN HASH_LENGTH(c.klass) * 2
                        ELSE RotPubWidth(c.klass))
    \o PackS(c.dck_pub, IF IsN4(c.klass) THEN HASH_LENGTH(c.klass) * 2
                        ELSE DckWidth(c.klass))
\* DebugCredential._get_data_to_sign and N4AnalogMixin._get_data_to_sign
get_data_to_sign(c) ==
    IF IsN4(c.klass)
    THEN PackVersion(c.klass) \o PackL(c.socc) \o PackS(c.uuid, 16)
         \o PackL(c.cc_socu) \o PackL(c.cc_vu) \o PackL(c.cc_beacon)
         \o PackS(c.rot_meta, Len(c.rot_meta))
         \o PackS(c.rot_pub, HASH_LENGTH(c.klass) * 2)
         \o PackS(c.dck_pub, HASH_LENGTH(c.klass) * 2)
    ELSE PackVersion(c.klass) \o PackL(c.socc) \o PackS(c.uuid, 16)
         \o PackS(c.rot_meta, RotMetaWidth(c.klass))
         \o PackS(c.dck_pub, DckWidth(c.klass))
         \o PackL(c.cc_socu) \o PackL(c.cc_vu) \o PackL(c.cc_beacon)
         \o PackS(c.rot_pub, RotPubWidth(c.klass))

\* DebugCredential.export and N4AnalogMixin.export
export(c) ==
    IF IsN4(c.klass)
    THEN IF c.signature = None THEN Fail("struct.error")
         ELSE Ok(get_data_to_sign(c) \o PackS(c.signature[1], HASH_LENGTH(c.klass) * 2))
    ELSE IF ~Present(c.signature) THEN Fail("SignatureMissing")
         ELSE Ok(get_data_to_sign(c) \o PackS(c.signature[1], SigWidth(c.klass)))

(***************************************************************************)
(* Signing.  `out` is what the Signature Provider returns for this call.   *)
(* The result is the error raised ("ok" for a normal return), the object   *)
(* after the call and whether the provider was called.                     *)
(***************************************************************************)
SignResult(e, c, called) == [err |-> e, cred |-> c, called |-> called]

\* DebugCredential.sign
sign_base(c, out) ==
    IF c.signature_provider = NoAttribute THEN SignResult("AttributeError", c, FALSE)
    ELSE IF c.signature_provider = NoProvider
    THEN SignResult("NoSignerConfigured", c, FALSE)
    ELSE IF out = <<>> THEN SignResult("EmptySignature", c, TRUE)
    ELSE SignResult("ok", [c EXCEPT !.signature = Some(out)], TRUE)

\* A sign that stores the normalized pair in rot_pub.
sign_ECC_IntoRotPub(c, out) ==
    LET base == sign_base(c, out)
    IN  IF base.err # "ok" THEN base
        ELSE LET rs == decode_dss_signature(base.cred.signature[1])
             IN  IF rs.err # "ok" THEN SignResult(rs.err, base.cred, TRUE)
                 ELSE LET sig == ecc_public_numbers_to_bytes(Val(rs)[1], Val(rs)[2],
                                                              CORD_LENGTH(c.klass))
                      IN  IF sig.err # "ok" THEN SignResult(sig.err, base.cred, TRUE)
                          ELSE SignResult("ok",
                                          [base.cred EXCEPT !.rot_pub = Val(sig)],
                                          TRUE)
\* DebugCredentialECC.sign
sign_ECC(c, out) ==
    LET base == sign_base(c, out)
    IN  IF base.err # "ok" THEN base
        ELSE LET rs == decode_dss_signature(base.cred.signature[1])
             IN  IF rs.err # "ok" THEN SignResult(rs.err, base.cred, TRUE)
                 ELSE LET sig == ecc_public_numbers_to_bytes(Val(rs)[1], Val(rs)[2],
                                                              CORD_LENGTH(c.klass))
                      IN  IF sig.err # "ok" THEN SignResult(sig.err, base.cred, TRUE)
                          ELSE SignResult("ok",
                                          [base.cred EXCEPT !.signature = Some(Val(sig))],
                                          TRUE)

sign(c, out) == IF IsRSA(c.klass) THEN sign_base(c, out) ELSE sign_ECC(c, out)

(***************************************************************************)
(* Parsing.  offset is 0-based.                                            *)
(***************************************************************************)
\* calcsize of the FORMAT of a fixed class
FormatSize(klass) ==
    4 + 4 + 16 + RotMetaWidth(klass) + DckWidth(klass) + 12 + RotPubWidth(klass)
    + SigWidth(klass)

\* DebugCredential.parse
parse(data, offset) ==
    IF Len(data) - offset < 8 THEN Fail("struct.error")
    ELSE LET version == FormatVersion(UnpackH(data, offset), UnpackH(data, offset + 2))
             socc == UnpackL(data, offset + 4)
             k == get_class(version, socc)
         IN  IF k.err # "ok" THEN k
             ELSE LET klass == Val(k)
                      o1 == offset + 24
                      o2 == o1 + RotMetaWidth(klass)
                      o3 == o2 + DckWidth(klass)
                      o4 == o3 + 12
                      o5 == o4 + RotPubWidth(klass)
                  IN  IF IsN4(klass) THEN Fail("TypeError")
                      ELSE IF Len(data) - offset < FormatSize(klass)
                      THEN Fail("struct.error")
                      ELSE Ok(DebugCredential(
                                  klass, UnpackL(data, offset + 4),
                                  UnpackS(data, offset + 8, 16),
                                  UnpackS(data, o1, RotMetaWidth(klass)),
                                  UnpackS(data, o2, DckWidth(klass)),
                                  UnpackL(data, o3), UnpackL(data, o3 + 4),
                                  UnpackL(data, o3 + 8),
                                  UnpackS(data, o4, RotPubWidth(klass)),
                                  Some(UnpackS(data, o5, SigWidth(klass))),
                                  NoProvider))

\* N4AnalogMixin.parse, called on the class cls.  The header is read from the
\* start of data; flags stays in its four bytes.
parse_N4(cls, data, offset) ==
    IF Len(data) < 40 THEN Fail("struct.error")
    ELSE LET flags == UnpackS(data, 36, 4)
             records_num == (flags[1] % 256) \div 16
             table_len == IF records_num > 1 THEN records_num * HASH_LENGTH(cls) ELSE 0
             head == offset + 40
             tail == offset + 40 + (4 + table_len) - 4
             w == HASH_LENGTH(cls) * 2
         IN  IF flags[4] < 128 THEN Fail("InvalidMetadataFlag")
             ELSE IF records_num > 1 /\ Len(data) - head < table_len
             THEN Fail("struct.error")
             ELSE IF Len(data) - tail < 3 * w THEN Fail("struct.error")
             ELSE Ok(DebugCredential(
                         cls, UnpackL(data, 4), UnpackS(data, 8, 16),
                         flags \o UnpackS(data, head, table_len),
                         UnpackS(data, tail + w, w),
                         UnpackL(data, 24), UnpackL(data, 28), UnpackL(data, 32),
                         UnpackS(data, tail, w),
                         Some(UnpackS(data, tail + 2 * w, w)),
                         NoProvider))

(***************************************************************************)
(* Equality and the summary.                                               *)
(***************************************************************************)
\* vars(obj): the instance attributes (the class is not one of them).
InstanceVars(c) ==
    <<c.socc, c.uuid, c.rot_meta, c.dck_pub, c.cc_socu, c.cc_vu, c.cc_beacon, c.rot_pub,
      c.signature, c.signature_provider>>

EqResult(e, res, a, b) == [err |-> e, res |-> res, self |-> a, other |-> b]

\* A del that removes the signature instead.
DelSignature(c) == [c EXCEPT !.signature = None]

\* del vars(obj)['signature_provider']
DelSigner(c) == [c EXCEPT !.signature_provider = NoAttribute]

\* DebugCredential.__eq__ and N4AnalogMixin.__eq__, as self == other
eq(self, other_) ==
    IF IsN4(self.klass)
    THEN IF self.signature_provider = NoAttribute
         THEN EqResult("KeyError", "none", self, other_)
         ELSE IF other_.signature_provider = NoAttribute
         THEN EqResult("KeyError", "none", DelSigner(self), other_)
         ELSE EqResult("ok",
                       IF InstanceVars(DelSigner(other_)) = InstanceVars(DelSigner(self))
                       THEN "True" ELSE "False",
                       DelSigner(self), DelSigner(other_))
    ELSE EqResult("ok",
                  IF InstanceVars(self) = InstanceVars(other_) THEN "True" ELSE "False",
                  self, other_)

\* DebugCredential.info and N4AnalogMixin.info: the lines of the summary.
info(c) ==
    IF IsN4(c.klass)
    THEN [version |-> VERSION(c.klass), socc |-> c.socc, uuid |-> c.uuid,
          cc_socu |-> c.cc_socu, cc_vu |-> c.cc_vu, beacon |-> c.cc_beacon,
          ca_flag |-> FALSE, ctrk_records_num |-> c.rot_meta[1] \div 16]
    ELSE [version |-> VERSION(c.klass), socc |-> c.socc, uuid |-> c.uuid,
          cc_socu |-> c.cc_socu, cc_vu |-> c.cc_vu, beacon |-> c.cc_beacon]

(***************************************************************************)
(* Inputs of the operations.                                               *)
(***************************************************************************)
Versions == {"1.0", "1.1", "2.0", "2.1", "2.2", "9.9"}
SoccValues == 0..MaxSocc
BuildSoccs == {1, 4}

\* uuid 00112233445566778899aabbccddeeff
Uuid == [i \in 1..16 |-> 17 * (i - 1)]

RotKeys(kt, n) == [i \in 1..n |-> Key(kt, i)]

\* The slots of a fixed-family rot_meta block: 128 / 32 = 528 / 132.
Slots == 4

\* The numbers of RoT keys of a configuration: up to MaxKeys, and one more
\* than the block has slots.
KeyCounts == 1..MaxKeys \cup {Slots + 1}
Configs ==
    { [socc |-> socc, uuid |-> Uuid, rot_id |-> rot_id, rot_meta |-> RotKeys(kt, n),
       dck |-> Key(kt, 9), cc_socu |-> 1, cc_vu |-> 0, cc_beacon |-> 4660,
       sign_provider |-> sp] :
      socc \in BuildSoccs, kt \in KeyTypes, n \in KeyCounts, rot_id \in 0..(MaxKeys - 1),
      sp \in Providers \cup {NoProvider} }

\* What a Signature Provider may return: nothing, an RSA signature of the
\* key's size, DER pairs of small and of large r and s, bytes that are no DER pair.
ProviderOutputs(klass) ==
    IF IsRSA(klass)
    THEN { <<>>, Rep(171, SigWidth(klass)), Rep(205, SigWidth(klass)), <<1, 2, 3>> }
    ELSE { <<>>, <<1, 2, 3>>, Rep(17, 64) }
         \cup { DerEncode(Rep(255, w), Rep(w, w)) : w \in {1, 32, 66, 67} }

\* The buffers a caller hands to parse: the exported bytes as they are
\* ("export"); the exported bytes of a variable-family credential under the
\* version of the requested layout ("versioned"); those with bit 31 of the
\* flags word at byte 36 cleared ("noflag").
Kinds == {"export", "versioned", "noflag"}
BufferKinds(klass) == IF IsN4(klass) THEN Kinds ELSE {"export"}

SetVersion(data, version) ==
    PackH(VersionInts(version)[1]) \o PackH(VersionInts(version)[2])
    \o SubSeq(data, 5, Len(data))
ClearBit31(data) == [data EXCEPT ![40] = @ % 128]

Buffer(kind) ==
    CASE kind = "export" -> buf[1]
      [] kind = "versioned" -> SetVersion(buf[1], req[1])
      [] kind = "noflag" -> ClearBit31(SetVersion(buf[1], req[1]))

\* The bytes in front of the buffer: none, or 40 bytes that read as a header
\* with the flags word 0x8000_0000.
Prefixes == { <<>>, Rep(0, 39) \o <<128>> }

(***************************************************************************)
(* The operations of one session.  A session either asks the registry for  *)
(* a layout, or builds one credential and then signs, exports, parses      *)
(* back and compares it.  sign() is called on a credential fresh from      *)
(* build, sign or a comparison and starts a new round: the caller drops    *)
(* the buffer and the parsed object of the round before.  A round exports  *)
(* once, and summaries are asked for before the export.  A caller that     *)
(* parses with a variable-layout class directly uses the class of the      *)
(* credential it exported.                                                 *)
(***************************************************************************)
Init ==
    /\ cred = None
    /\ other = None
    /\ buf = None
    /\ raw = None
    /\ signedOk = FALSE
    /\ eqRes = "none"
    /\ ret = None
    /\ req = None
    /\ cfg = None
    /\ handed = None
    /\ parg = None
    /\ lastOp = "init"
    /\ err = "ok"
    /\ client = None
    /\ call = "none"
    /\ response = None
    /\ status = None
    /\ pc = "idle"
    /\ clock = 0
    /\ split = None
    /\ raised = "ok"

Resolve(version, socc) ==
    /\ lastOp = "init"
    /\ LET r == get_class(version, socc)
       IN  /\ ret' = r.val
           /\ err' = r.err
    /\ req' = <<version, socc>>
    /\ lastOp' = "resolve"
    /\ UNCHANGED el2goVars
    /\ UNCHANGED <<cred, other, buf, raw, signedOk, eqRes, cfg, handed, parg>>

Build(version, yaml_config) ==
    /\ lastOp = "init"
    /\ yaml_config.rot_id < Len(yaml_config.rot_meta)
    /\ LET r == create_from_yaml_config(version, yaml_config)
       IN  /\ cred' = r.val
           /\ err' = r.err
    /\ req' = <<version, yaml_config.socc>>
    /\ cfg' = Some(yaml_config)
    /\ ret' = None
    /\ lastOp' = "build"
    /\ UNCHANGED el2goVars
    /\ UNCHANGED <<other, buf, raw, signedOk, eqRes, handed, parg>>

Sign(out) ==
    /\ cred # None
    /\ lastOp \in {"build", "sign", "eq"}
    /\ LET r == sign(cred[1], out)
       IN  /\ cred' = Some(r.cred)
           /\ raw' = IF r.called THEN Some(out) ELSE None
           /\ handed' = IF r.called THEN Some(get_data_to_sign(cred[1])) ELSE None
           /\ signedOk' = (r.err = "ok")
           /\ err' = r.err
    /\ buf' = None
    /\ other' = None
    /\ eqRes' = "none"
    /\ parg' = None
    /\ ret' = None
    /\ lastOp' = "sign"
    /\ UNCHANGED el2goVars
    /\ UNCHANGED <<req, cfg>>

\* sign() with any of the outputs the provider of the credential may return
SignAny ==
    /\ cred # None
    /\ \E out \in ProviderOutputs(cred[1].klass) : Sign(out)

Export ==
    /\ cred # None
    /\ buf = None
    /\ LET r == export(cred[1])
       IN  /\ buf' = r.val
           /\ err' = r.err
    /\ ret' = None
    /\ lastOp' = "export"
    /\ UNCHANGED el2goVars
    /\ UNCHANGED <<cred, other, raw, signedOk, eqRes, req, cfg, handed, parg>>

Parse(kind, prefix) ==
    /\ buf # None
    /\ kind \in BufferKinds(cred[1].klass)
    /\ LET r == parse(prefix \o Buffer(kind), Len(prefix))
       IN  /\ other' = r.val
           /\ err' = r.err
    /\ parg' = Some([kind |-> kind, prefix |-> prefix])
    /\ ret' = None
    /\ lastOp' = "parse"
    /\ UNCHANGED el2goVars
    /\ UNCHANGED <<cred, buf, raw, signedOk, eqRes, req, cfg, handed>>

ParseN4(cls, kind, prefix) ==
    /\ buf # None
    /\ cls = cred[1].klass
    /\ kind \in BufferKinds(cred[1].klass)
    /\ LET r == parse_N4(cls, prefix \o Buffer(kind), Len(prefix))
       IN  /\ other' = r.val
           /\ err' = r.err
    /\ parg' = Some([kind |-> kind, prefix |-> prefix])
    /\ ret' = None
    /\ lastOp' = "parse_N4"
    /\ UNCHANGED el2goVars
    /\ UNCHANGED <<cred, buf, raw, signedOk, eqRes, req, cfg, handed>>

Compare ==
    /\ cred # None
    /\ other # None
    /\ LET r == eq(cred[1], other[1])
       IN  /\ cred' = Some(r.self)
           /\ other' = Some(r.other)
           /\ eqRes' = r.res
           /\ err' = r.err
    /\ ret' = None
    /\ lastOp' = "eq"
    /\ UNCHANGED el2goVars
    /\ UNCHANGED <<buf, raw, signedOk, req, cfg, handed, parg>>

Info ==
    /\ cred # None
    /\ buf = None
    /\ ret' = Some(info(cred[1]))
    /\ err' = "ok"
    /\ lastOp' = "info"
    /\ UNCHANGED el2goVars
    /\ UNCHANGED <<cred, other, buf, raw, signedOk, eqRes, req, cfg, handed, parg>>

Next ==
    \/ \E version \in Versions, socc \in SoccValues : Resolve(version, socc)
    \/ \E version \in Versions, yaml_config \in Configs : Build(version, yaml_config)
    \/ SignAny
    \/ Export
    \/ \E kind \in Kinds, prefix \in Prefixes : Parse(kind, prefix)
    \/ \E cls \in N4Classes, kind \in Kinds, prefix \in Prefixes : ParseN4(cls, kind, prefix)
    \/ Compare
    \/ Info

Spec == Init /\ [][Next]_vars

(***************************************************************************)
(* Properties.                                                             *)
(***************************************************************************)
Built == cred # None
Signature == cred[1].signature

\* The fields a credential serializes: the version of its class and every
\* instance attribute but the signer reference.
SerializedFields(c) ==
    <<VERSION(c.klass), c.klass, c.socc, c.uuid, c.rot_meta, c.dck_pub, c.cc_socu, c.cc_vu,
      c.cc_beacon, c.rot_pub, c.signature>>

\* C1: a credential that was built and signed, exported and parsed back, is
\* parsed without error and the parsed credential compares equal to it.
C1_RoundTrip ==
    /\ (Built /\ signedOk /\ lastOp = "parse") => (err = "ok" /\ other # None)
    /\ (Built /\ signedOk /\ lastOp = "eq" /\ other[1].klass = cred[1].klass)
           => (err = "ok" /\ eqRes = "True")

\* C2: export() of a credential whose signature is absent fails with
\* SignatureMissing and returns no bytes, for every variant.
C2_ExportUnsigned ==
    (Built /\ lastOp = "export" /\ Signature = None)
        => (err = "SignatureMissing" /\ buf = None)

\* C3 (as claimed): once signature is present no later operation, a further
\* sign() included, changes the stored signature bytes.
C3_SignedOnce ==
    [][(Built /\ Signature # None) => cred'[1].signature = Signature]_vars

\* What sign() has to store for the provider output out: the output itself
\* for RSA, r and s at the fixed width of the class for ECC.
C3_Normalized(klass, out) ==
    IF IsRSA(klass) THEN out
    ELSE LET rs == Val(decode_dss_signature(out))
             w == IF IsN4(klass) THEN HASH_LENGTH(klass) ELSE 66
         IN  Rep(0, w - Len(rs[1])) \o rs[1] \o Rep(0, w - Len(rs[2])) \o rs[2]

\* C3 (amended): sign() is the only operation that changes signature: export,
\* parse, == and info leave the stored bytes alone, and a sign() that returns
\* normally stores the normalized output of that call, replacing what was there.
C3_OnlySignWrites ==
    [][Built =>
          /\ (lastOp' # "sign" => cred'[1].signature = Signature)
          /\ (lastOp' = "sign" /\ err' = "ok"
                 => cred'[1].signature = Some(C3_Normalized(cred[1].klass, raw'[1])))]_vars

\* C3 witness: an operation other than sign() has acted on a signed credential.
C3_Witness ==
    Built /\ signedOk /\ Present(Signature) /\ lastOp = "eq" /\ err = "ok"

\* C4: for an ECC class, when the provider returns non-empty bytes that are
\* no encoded (r, s) pair, sign() on an unsigned credential fails with
\* MalformedSignature and signature is still absent.
C4_MalformedNotStored ==
    [][(/\ Built /\ IsECC(cred[1].klass) /\ Signature = None
        /\ lastOp' = "sign" /\ raw' # None /\ raw'[1] # <<>>
        /\ decode_dss_signature(raw'[1]).err # "ok")
           => (err' = "MalformedSignature" /\ cred'[1].signature = None)]_vars

\* C5: sign() on a credential with no Signature Provider attached fails with
\* NoSignerConfigured, sign() whose provider returns no bytes fails with
\* EmptySignature, and either failure leaves every field as it was.
C5_SignFailures ==
    [][(Built /\ lastOp' = "sign") =>
          /\ (cred[1].signature_provider \notin Providers
                 => (err' = "NoSignerConfigured" /\ cred' = cred))
          /\ (cred[1].signature_provider \in Providers /\ raw' = Some(<<>>)
                 => (err' = "EmptySignature" /\ cred' = cred))]_vars

\* C6: signature is absent or exactly signature_size bytes long.
C6_SignatureSize ==
    (Built /\ Signature # None)
        => Len(Signature[1]) = (IF IsN4(cred[1].klass) THEN 2 * HASH_LENGTH(cred[1].klass)
                                ELSE SigWidth(cred[1].klass))

\* The coordinate width C7 claims: 32, 48 and 66 bytes for the 256-, 384- and
\* 521-bit fixed classes, hash_length for the variable family.
C7_ClaimedWidth(klass) ==
    CASE klass = "DebugCredentialECC256" -> 32
      [] klass = "DebugCredentialECC384" -> 48
      [] klass = "DebugCredentialECC521" -> 66
      [] OTHER -> HASH_LENGTH(klass)

\* C7 (as claimed): a signed ECC credential stores 2 * coordinate_len bytes at
\* the claimed widths, and the export of a signed fixed ECC-256 credential is
\* unsigned_size + 64 bytes long.
C7_CurveWidth ==
    /\ (Built /\ signedOk /\ IsECC(cred[1].klass))
           => Len(Signature[1]) = 2 * C7_ClaimedWidth(cred[1].klass)
    /\ (Built /\ signedOk /\ cred[1].klass = "DebugCredentialECC256" /\ buf # None)
           => Len(buf[1]) = Len(get_data_to_sign(cred[1])) + 64

\* C7 (amended): a sign() that returns normally stores exactly 2 * coordinate_len
\* bytes whatever the magnitude of r and s, where coordinate_len is 66 bytes for
\* every fixed-family ECC class and hash_length for the variable family; the
\* export of a signed fixed ECC-256 credential is unsigned_size + 132 bytes long.
C7_FixedWidth ==
    /\ (Built /\ signedOk /\ IsECC(cred[1].klass))
           => Len(Signature[1])
                  = 2 * (IF IsN4(cred[1].klass) THEN HASH_LENGTH(cred[1].klass) ELSE 66)
    /\ (Built /\ signedOk /\ cred[1].klass = "DebugCredentialECC256" /\ buf # None)
           => Len(buf[1]) = Len(get_data_to_sign(cred[1])) + 132

\* C7 witness: a fixed ECC-256 credential signed with a one-byte r and s was exported.
C7_Witness ==
    /\ Built /\ signedOk /\ cred[1].klass = "DebugCredentialECC256"
    /\ raw = Some(DerEncode(<<255>>, <<1>>))
    /\ lastOp = "export" /\ err = "ok" /\ Len(buf[1]) = 832

\* C8: two credentials compare equal exactly when every field but the signer
\* reference is equal.
C8_EqualityIgnoresSigner ==
    (lastOp = "eq" /\ err = "ok")
        => (eqRes = "True" <=> SerializedFields(cred[1]) = SerializedFields(other[1]))

\* The fixed-layout subset as C9 states it: keyed by the version alone.
C9_FixedLayout(version) ==
    CASE version = "1.0" -> Some("DebugCredentialRSA2048")
      [] version = "1.1" -> Some("DebugCredentialRSA4096")
      [] version = "2.0" -> Some("DebugCredentialECC256")
      [] version = "2.1" -> Some("DebugCredentialECC384")
      [] version = "2.2" -> Some("DebugCredentialECC521")
      [] OTHER -> None

\* The variable-layout subset as C9 states it.
C9_VariableLayout(version) ==
    CASE version = "2.0" -> Some("DebugCredentialECC256N4Analog")
      [] version = "2.1" -> Some("DebugCredentialECC384N4Analog")
      [] OTHER -> None

C9_Layout(version, socc) ==
    IF socc = 4 THEN C9_VariableLayout(version) ELSE C9_FixedLayout(version)

\* The buffer the last parse was given, without the bytes in front of it.
Parsed == Buffer(parg[1].kind)

\* The (version, soc_class) pair at the start of a buffer.
HeaderPair(data) == <<FormatVersion(UnpackH(data, 0), UnpackH(data, 2)), UnpackL(data, 4)>>

\* C9: soc_class 4 resolves within the variable-layout subset, every other
\* soc_class within the fixed-layout subset by the version alone; this holds
\* for the registry itself, for build and for the generic parse.
C9_TwoLevelDispatch ==
    /\ lastOp = "resolve" => ret = C9_Layout(req[1], req[2])
    /\ (lastOp = "build" /\ Built) => Some(cred[1].klass) = C9_Layout(req[1], req[2])
    /\ (lastOp = "parse" /\ other # None)
           => Some(other[1].klass) = C9_Layout(HeaderPair(Parsed)[1], HeaderPair(Parsed)[2])

\* C9 witness: version 2.0 was resolved for soc_class 4, to the variable layout.
C9_Witness ==
    lastOp = "resolve" /\ req = <<"2.0", 4>> /\ ret = Some("DebugCredentialECC256N4Analog")

\* C10: a pair with no registered descriptor fails with UnsupportedVariant
\* and yields no layout; build and parse on such a pair fail alike and create
\* no credential.
C10_UnsupportedVariant ==
    /\ (lastOp = "resolve" /\ C9_Layout(req[1], req[2]) = None)
           => (err = "UnsupportedVariant" /\ ret = None)
    /\ (lastOp = "build" /\ C9_Layout(req[1], req[2]) = None)
           => (err = "UnsupportedVariant" /\ cred = None)
    /\ (lastOp = "parse"
        /\ C9_Layout(HeaderPair(Parsed)[1], HeaderPair(Parsed)[2]) = None)
           => (err = "UnsupportedVariant" /\ other = None)

\* C10 witness: version 9.9 with soc_class 1 was asked for and refused.
C10_Witness ==
    lastOp = "resolve" /\ req = <<"9.9", 1>> /\ err = "UnsupportedVariant" /\ ret = None

\* C11: the generic parse, given a well-formed buffer with soc_class 4 and
\* version 2.0 or 2.1, returns a credential of the variable-family variant
\* of that version; it does not fail.
C11_GenericParseVariable ==
    (lastOp = "parse" /\ signedOk /\ parg[1].kind = "versioned"
     /\ HeaderPair(Parsed) \in {<<"2.0", 4>>, <<"2.1", 4>>})
        => /\ err = "ok"
           /\ other # None
           /\ Some(other[1].klass) = C9_VariableLayout(HeaderPair(Parsed)[1])

\* The configuration of the session's credential: its RoT keys, their number,
\* the index of the selected one.
RotPubKeys == cfg[1].rot_meta
KeyCount == Len(RotPubKeys)
SelectedIndex == cfg[1].rot_id
SelectedKey == RotPubKeys[SelectedIndex + 1]
BuiltN4 == Built /\ IsN4(cred[1].klass)

\* The record count in the flags word at the start of a rot_meta.
RecordCount(rot_meta) == rot_meta[1] \div 16

Flags(rot_meta) == SubSeq(rot_meta, 1, 4)
Bit31(flags) == flags[4] >= 128
Bits11to8(flags) == flags[2] % 16
Bits7to4(flags) == flags[1] \div 16

\* The fields of the flags word of the session's variable-family credential
\* hold the selected index and the key count.
FlagsFields ==
    /\ Bit31(Flags(cred[1].rot_meta))
    /\ Bits11to8(Flags(cred[1].rot_meta)) = SelectedIndex
    /\ Bits7to4(Flags(cred[1].rot_meta)) = KeyCount

\* The variable-family parse of the buffer at offset 0 reads the key count
\* from the flags word.
FlagsCountParsed ==
    (lastOp = "parse_N4" /\ other # None /\ BuiltN4
     /\ parg[1].prefix = <<>> /\ parg[1].kind # "noflag")
        => RecordCount(other[1].rot_meta) = KeyCount

\* C13 as stated: bit 31 is set, bits [11:8] hold the selected index, bits
\* [7:4] the key count, parse reads that count, and the word is 0x8000_0132
\* for three keys and index 1.
C13_FlagsWord0132 ==
    /\ BuiltN4 => /\ FlagsFields
                  /\ (KeyCount = 3 /\ SelectedIndex = 1)
                         => Flags(cred[1].rot_meta) = <<50, 1, 0, 128>>
    /\ FlagsCountParsed

\* C13 amended: bit 31 is set, bits [11:8] hold the selected index, bits
\* [7:4] the key count, parse reads that count, and the word is 0x8000_0130
\* for three keys and index 1.
C13_FlagsWord0130 ==
    /\ BuiltN4 => /\ FlagsFields
                  /\ (KeyCount = 3 /\ SelectedIndex = 1)
                         => Flags(cred[1].rot_meta) = <<48, 1, 0, 128>>
    /\ FlagsCountParsed

\* C13 witness: a variable-family credential of three keys with index 1 was
\* exported and parsed back, and parse read three records.
C13_Witness ==
    /\ lastOp = "parse_N4" /\ other # None /\ BuiltN4 /\ parg[1].prefix = <<>>
    /\ KeyCount = 3 /\ SelectedIndex = 1
    /\ Flags(cred[1].rot_meta) = <<48, 1, 0, 128>>
    /\ RecordCount(other[1].rot_meta) = 3

\* C14: a parse of a variable-family buffer whose flags word has bit 31
\* clear fails with InvalidMetadataFlag and returns no credential.
C14_InvalidMetadataFlag ==
    (lastOp \in {"parse", "parse_N4"} /\ parg[1].kind = "noflag")
        => (err = "InvalidMetadataFlag" /\ other = None)

\* C15: parse reads every field relative to offset: the parse of a buffer
\* behind a byte prefix, at the offset of the prefix's length, returns what
\* the parse of the buffer alone at offset 0 returns.
C15_OffsetRelative ==
    /\ lastOp = "parse"
           => <<err, other>> = <<parse(Parsed, 0).err, parse(Parsed, 0).val>>
    /\ lastOp = "parse_N4"
           => <<err, other>> = <<parse_N4(cred[1].klass, Parsed, 0).err,
                                 parse_N4(cred[1].klass, Parsed, 0).val>>

\* The width the layout of a class assigns to debugger_key, rot_pub and the
\* signature; the variable family sizes rot_meta by its length.
LayoutDck(klass) == IF IsN4(klass) THEN HASH_LENGTH(klass) * 2 ELSE DckWidth(klass)
LayoutRotPub(klass) == IF IsN4(klass) THEN HASH_LENGTH(klass) * 2 ELSE RotPubWidth(klass)
LayoutSig(klass) == IF IsN4(klass) THEN HASH_LENGTH(klass) * 2 ELSE SigWidth(klass)

\* Every field of the unsigned payload has the width of its layout.
FieldsFit(c) ==
    /\ Len(c.uuid) = 16
    /\ IsN4(c.klass) \/ Len(c.rot_meta) = RotMetaWidth(c.klass)
    /\ Len(c.dck_pub) = LayoutDck(c.klass)
    /\ Len(c.rot_pub) = LayoutRotPub(c.klass)

\* C16: no field is silently cut or zero-filled: a sign() that returned
\* normally and an export() that returned bytes had every field at the
\* width of its layout.
C16_NoSilentResize ==
    /\ (lastOp = "sign" /\ err = "ok") => FieldsFit(cred[1])
    /\ (lastOp = "export" /\ err = "ok")
           => (FieldsFit(cred[1]) /\ Len(Signature[1]) = LayoutSig(cred[1].klass))

\* The field orders as C17 states them, for fields of the layout's widths.
FixedOrder(c) ==
    PackVersion(c.klass) \o PackL(c.socc) \o c.uuid \o c.rot_meta \o c.dck_pub
    \o PackL(c.cc_socu) \o PackL(c.cc_vu) \o PackL(c.cc_beacon) \o c.rot_pub
VariableOrder(c) ==
    PackVersion(c.klass) \o PackL(c.socc) \o c.uuid
    \o PackL(c.cc_socu) \o PackL(c.cc_vu) \o PackL(c.cc_beacon)
    \o c.rot_meta \o c.rot_pub \o c.dck_pub
FieldOrder(c) == IF IsN4(c.klass) THEN VariableOrder(c) ELSE FixedOrder(c)

\* The instance fields parse assigns.
NamedFields(c) ==
    [socc |-> c.socc, uuid |-> c.uuid, rot_meta |-> c.rot_meta, dck_pub |-> c.dck_pub,
     cc_socu |-> c.cc_socu, cc_vu |-> c.cc_vu, cc_beacon |-> c.cc_beacon,
     rot_pub |-> c.rot_pub, signature |-> c.signature]

\* The session's credential has every field and its signature at the width
\* of the layout.
AllFit == FieldsFit(cred[1]) /\ Signature # None
          /\ Len(Signature[1]) = LayoutSig(cred[1].klass)

\* C17: export packs the fields in the order of the family, the signature
\* last; the data handed to the signer is the same sequence without the
\* signature; parse of the exported buffer assigns each position back to the
\* field of the same name (the variable-family parse on its class, with
\* the buffer at offset 0).
C17_FieldOrder ==
    /\ (lastOp = "export" /\ err = "ok" /\ AllFit)
           => buf[1] = FieldOrder(cred[1]) \o Signature[1]
    /\ (lastOp = "sign" /\ handed # None /\ FieldsFit(cred[1]))
           => handed[1] = FieldOrder(cred[1])
    /\ (lastOp = "parse" /\ other # None /\ AllFit)
           => NamedFields(other[1]) = NamedFields(cred[1])
    /\ (lastOp = "parse_N4" /\ other # None /\ AllFit
        /\ parg[1].prefix = <<>> /\ parg[1].kind # "noflag")
           => NamedFields(other[1]) = NamedFields(cred[1])

\* C17 witness: a variable-family credential with three RoT keys, its fields
\* at their widths, was exported in the variable order and parsed back.
C17_Witness ==
    /\ lastOp = "parse_N4" /\ other # None /\ BuiltN4 /\ AllFit /\ KeyCount = 3
    /\ buf[1] = VariableOrder(cred[1]) \o Signature[1]
    /\ NamedFields(other[1]) = NamedFields(cred[1])

\* C18: the export of a signed credential is the data sign() handed to the
\* Signature Provider followed by the stored signature, and is as long as
\* the unsigned payload and the signature size of the layout together.
C18_PayloadThenSignature ==
    (lastOp = "export" /\ err = "ok" /\ signedOk)
        => /\ buf[1] = handed[1] \o Signature[1]
           /\ Len(buf[1]) = Len(handed[1]) + LayoutSig(cred[1].klass)

\* The curve identifier of a key size as the specification lists it.
CurveId(key_size) ==
    CASE key_size = 256 -> 1
      [] key_size = 384 -> 2
      [] key_size = 521 -> 3

\* The compact (key-index, curve-identifier) pair of the selected RoT key:
\* two 16-bit little-endian numbers.
CompactPair == PackH(SelectedIndex) \o PackH(CurveId(SelectedKey.key_size))

\* The full encoding of the selected RoT key: the exponent in 4 bytes and
\* the modulus of an RSA key, X and Y of an ECC key, each coordinate padded
\* to width bytes.
FullRsaKey == <<0>> \o KeyExponent \o KeyModulus(SelectedKey)
FullEccKey(width) ==
    Rep(0, width - CoordBytes(SelectedKey)) \o KeyX(SelectedKey)
    \o Rep(0, width - CoordBytes(SelectedKey)) \o KeyY(SelectedKey)

\* C19 as stated: every fixed-family variant stores the full encoding of the
\* selected RoT key, every variable-family variant the compact pair.
C19_FullFixedCompactVariable ==
    Built => IF IsN4(cred[1].klass) THEN cred[1].rot_pub = CompactPair
             ELSE IF IsRSA(cred[1].klass) THEN cred[1].rot_pub = FullRsaKey
             ELSE cred[1].rot_pub = FullEccKey(66)

\* C19 amended: the RSA variants store the full encoding of the selected RoT
\* key, the fixed-family ECC variants the compact pair in 4 bytes, the
\* variable-family variants the full X and Y of the selected RoT key at
\* key bits / 8 bytes each.
C19_CompactFixedEcc ==
    Built => IF IsN4(cred[1].klass)
             THEN cred[1].rot_pub = FullEccKey(SelectedKey.key_size \div 8)
             ELSE IF IsRSA(cred[1].klass) THEN cred[1].rot_pub = FullRsaKey
             ELSE cred[1].rot_pub = CompactPair /\ Len(cred[1].rot_pub) = 4

\* C19 witness: a fixed-family ECC credential was built with the second of
\* three 521-bit RoT keys selected; its rot_pub is the pair (1, 3).
C19_Witness ==
    /\ lastOp = "build" /\ Built /\ cred[1].klass = "DebugCredentialECC521"
    /\ KeyCount = 3 /\ SelectedIndex = 1 /\ SelectedKey.key_size = 521
    /\ cred[1].rot_pub = <<1, 0, 3, 0>>

\* The build request names a fixed-family ECC layout and ECC keys.
CompactRequest ==
    /\ lastOp = "build"
    /\ get_class(req[1], req[2]).err = "ok"
    /\ Val(get_class(req[1], req[2])) \in FixedClasses
    /\ IsECC(Val(get_class(req[1], req[2])))
    /\ SelectedKey.alg = "ECC"

\* C20: for a selected RoT key on a 256-, 384- or 521-bit curve, building
\* the compact rot_pub returns the pair of the selected index and the curve
\* identifier 1, 2 or 3.
C20_CurveIdentifier ==
    (CompactRequest /\ SelectedKey.key_size \in {256, 384, 521})
        => (err = "ok" /\ Built /\ cred[1].rot_pub = CompactPair)

\* The slot stride of a fixed-family rot_meta and the bytes of slot i.
Stride(klass) == IF IsRSA(klass) THEN 32 ELSE 132
Slot(rot_meta, klass, i) == SubSeq(rot_meta, i * Stride(klass) + 1, (i + 1) * Stride(klass))

\* The encoding of a RoT key that the fixed-family block is built from.
SlotEncoding(klass, key) ==
    IF IsRSA(klass) THEN Val(rsa_key_to_bytes(key, 3)) ELSE Val(ecc_key_to_bytes(key, 66))

BuiltFixed == Built /\ ~IsN4(cred[1].klass)

\* C21: a fixed-family rot_meta is 128 bytes (RSA) or 528 bytes (ECC) long
\* for any list of RoT keys, slot i holds the digest of the encoding of the
\* key at list index i, and every byte of an unused slot is zero.
C21_FixedBlock ==
    BuiltFixed =>
        /\ Len(cred[1].rot_meta) = RotMetaWidth(cred[1].klass)
        /\ \A i \in 0..(KeyCount - 1) :
               Slot(cred[1].rot_meta, cred[1].klass, i)
                   = Hash(SlotEncoding(cred[1].klass, RotPubKeys[i + 1]), Stride(cred[1].klass))
        /\ \A j \in (KeyCount * Stride(cred[1].klass) + 1)..Len(cred[1].rot_meta) :
               cred[1].rot_meta[j] = 0

\* The serialized fields of a credential other than its signature.
FixedAtConstruction(c) ==
    [version |-> VERSION(c.klass), socc |-> c.socc, uuid |-> c.uuid,
     rot_meta |-> c.rot_meta, dck_pub |-> c.dck_pub, cc_socu |-> c.cc_socu,
     cc_vu |-> c.cc_vu, cc_beacon |-> c.cc_beacon, rot_pub |-> c.rot_pub]

\* The credential as create_from_yaml_config returned it for the session's request.
Constructed == Val(create_from_yaml_config(req[1], cfg[1]))

\* C22: after any sequence of sign(), export(), info and == the serialized
\* fields other than signature equal their values at construction.
C22_FieldsFixed ==
    Built => FixedAtConstruction(cred[1]) = FixedAtConstruction(Constructed)

\* C22 witness: a variable-family credential was signed, exported, parsed
\* back and compared; its signature and its signer reference have changed
\* since construction, its other fields have not.
C22_Witness ==
    /\ Built /\ lastOp = "eq" /\ signedOk /\ buf # None /\ IsN4(cred[1].klass)
    /\ Signature # None /\ Constructed.signature = None
    /\ cred[1].signature_provider # Constructed.signature_provider
    /\ FixedAtConstruction(cred[1]) = FixedAtConstruction(Constructed)

\* C23: == is a pure read: a comparison returns normally and changes no
\* attribute of either operand, the signer reference included.
C23_EqualityPure ==
    [][lastOp' = "eq" => (err' = "ok" /\ cred' = cred /\ other' = other)]_vars

(***************************************************************************)
(* EdgeLock 2GO client (spsdk/el2go/api_utils.py): the generation status,  *)
(* the wait for the provisionings and the split of UUIDs into jobs.        *)
(***************************************************************************)
MaxContent == 2
MaxTimeout == 3
MaxDelay == 2
MaxUuids == 6
MaxJobSize == 4

GenStatus ==
    { "GENERATION_TRIGGERED", "GENERATION_COMPLETED", "GENERATION_FAILED",
      "PROVISIONING_COMPLETED", "PROVISIONING_FAILED", "GENERATION_ON_CONNECTION" }
OK_STATES == <<"GENERATION_COMPLETED", "GENERATION_ON_CONNECTION", "PROVISIONING_COMPLETED">>
BAD_STATES == <<"GENERATION_FAILED", "PROVISIONING_FAILED">>
WAIT_STATES == <<"GENERATION_TRIGGERED">>

\* x in a Python list
In(x, list) == \E i \in 1..Len(list) : list[i] = x

\* response_handling: a status code of 400 or more raises.
response_handling(resp) ==
    IF resp.status_code >= 400 THEN Fail("SPSDKHTTPClientError") ELSE Ok(resp)

\* The loop of get_generation_status over json_body["content"], from entry i on.
RECURSIVE StatusFrom(_, _)
StatusFrom(provisionings, i) ==
    IF i > Len(provisionings) THEN Ok(OK_STATES[1])
    ELSE IF In(provisionings[i], BAD_STATES) THEN Fail("GenerationFailed")
    ELSE IF In(provisionings[i], WAIT_STATES) THEN Ok(provisionings[i])
    ELSE StatusFrom(provisionings, i + 1)

\* get_generation_status, for the response resp of the server.
get_generation_status(resp) ==
    IF response_handling(resp).err # "ok" THEN response_handling(resp)
    ELSE IF resp.content = <<>> THEN Fail("NoSecureObjects")
    ELSE StatusFrom(resp.content, 1)

\* math.ceil(a / b) for integers a >= 0, b > 0
Ceil(a, b) == (a + b - 1) \div b

\* Variant of calculate_jobs: full jobs first, the remainder in the last one.
calculate_jobs_FullFirst(uuid_count, max_job_size) ==
    IF max_job_size = 0 THEN Fail("ZeroDivisionError")
    ELSE LET jobs == Ceil(uuid_count, max_job_size)
         IN  IF jobs = 0 THEN Fail("ZeroDivisionError")
             ELSE Ok([i \in 1..jobs |->
                        IF i < jobs THEN max_job_size
                        ELSE uuid_count - (jobs - 1) * max_job_size])
\* calculate_jobs
calculate_jobs(uuid_count, max_job_size) ==
    IF max_job_size = 0 THEN Fail("ZeroDivisionError")
    ELSE LET jobs == Ceil(uuid_count, max_job_size)
         IN  IF jobs = 0 THEN Fail("ZeroDivisionError")
             ELSE LET size == Ceil(uuid_count, jobs)
                      extra == size * jobs - uuid_count
                  IN  Ok([i \in 1..jobs |-> IF i <= extra THEN size - 1 ELSE size])

\* The loop of split_uuids_to_jobs: job k takes the next job_sizes[k] UUIDs,
\* pos of them are taken already.
RECURSIVE JobsFrom(_, _, _, _)
JobsFrom(uuids, job_sizes, k, pos) ==
    IF k > Len(job_sizes) THEN <<>>
    ELSE <<SubSeq(uuids, pos + 1, pos + job_sizes[k])>>
         \o JobsFrom(uuids, job_sizes, k + 1, pos + job_sizes[k])

\* split_uuids_to_jobs
split_uuids_to_jobs(uuids, max_job_size) ==
    LET job_sizes == calculate_jobs(Len(uuids), max_job_size)
    IN  IF job_sizes.err # "ok" THEN job_sizes
        ELSE Ok(JobsFrom(uuids, Val(job_sizes), 1, 0))

\* Timeout.overflow(): more time than the timeout has passed since it was made.
overflow == clock > client[1].download_timeout

(***************************************************************************)
(* Inputs of the client's methods: what the server answers, how long a     *)
(* request takes, the settings of the client, the UUIDs to split.          *)
(***************************************************************************)
Contents == UNION { [1..n -> GenStatus] : n \in 0..MaxContent }
Responses ==
    { [status_code |-> 200, content |-> c] : c \in Contents }
    \cup { [status_code |-> 500, content |-> <<>>] }
RequestTimes == {0, 1}
Uuids(n) == [i \in 1..n |-> i]

(***************************************************************************)
(* The operations of one session with the client: one call of              *)
(* get_generation_status, of split_uuids_to_jobs or of                     *)
(* download_provisionings; the last runs poll by poll.                     *)
(***************************************************************************)
GetGenerationStatus(resp) ==
    /\ call = "none"
    /\ call' = "get_generation_status"
    /\ response' = Some(resp)
    /\ status' = get_generation_status(resp).val
    /\ raised' = get_generation_status(resp).err
    /\ UNCHANGED <<client, pc, clock, split, dcVars>>

SplitUuids(uuids, max_job_size) ==
    /\ call = "none"
    /\ call' = "split_uuids_to_jobs"
    /\ LET r == split_uuids_to_jobs(uuids, max_job_size)
       IN  /\ split' = Some([uuids |-> uuids, max_job_size |-> max_job_size, jobs |-> r.val])
           /\ raised' = r.err
    /\ UNCHANGED <<client, response, status, pc, clock, dcVars>>

\* download_provisionings up to the Timeout of _wait_for_provisionings
DownloadProvisionings(download_timeout, delay) ==
    /\ call = "none"
    /\ call' = "download_provisionings"
    /\ client' = Some([download_timeout |-> download_timeout, delay |-> delay])
    /\ pc' = "wait"
    /\ clock' = 0
    /\ UNCHANGED <<response, status, split, raised, dcVars>>

\* One pass of the while loop of _wait_for_provisionings: the request takes
\* `took`, the server answers resp.
Poll(resp, took) ==
    /\ pc = "wait"
    /\ ~overflow
    /\ response' = Some(resp)
    /\ LET r == get_generation_status(resp)
       IN  IF r.err # "ok"
           THEN /\ raised' = r.err
                /\ status' = None
                /\ pc' = "failed"
                /\ clock' = clock + took
           ELSE /\ status' = r.val
                /\ IF In(Val(r), BAD_STATES)
                   THEN /\ raised' = "GenerationFailed"
                        /\ pc' = "failed"
                        /\ clock' = clock + took
                   ELSE IF In(Val(r), WAIT_STATES)
                   THEN /\ clock' = clock + took + client[1].delay
                        /\ UNCHANGED <<pc, raised>>
                   ELSE IF In(Val(r), OK_STATES)
                   THEN /\ pc' = "download"
                        /\ clock' = clock + took
                        /\ UNCHANGED raised
                   ELSE /\ clock' = clock + took
                        /\ UNCHANGED <<pc, raised>>
    /\ UNCHANGED <<client, call, split, dcVars>>

\* Variant of the loop exit: the wait returns when the time is over.
TimedOut_Returns ==
    /\ pc = "wait"
    /\ overflow
    /\ pc' = "download"
    /\ UNCHANGED <<client, call, response, status, clock, split, raised, dcVars>>
\* The while condition fails: the timed-out error.
TimedOut ==
    /\ pc = "wait"
    /\ overflow
    /\ raised' = "TimedOut"
    /\ pc' = "failed"
    /\ UNCHANGED <<client, call, response, status, clock, split, dcVars>>

\* _download_provisionings, after _wait_for_provisionings returned
Download(resp) ==
    /\ pc = "download"
    /\ response' = Some(resp)
    /\ raised' = response_handling(resp).err
    /\ pc' = "done"
    /\ UNCHANGED <<client, call, status, clock, split, dcVars>>

\* The steps of a download_provisionings that is running
Running ==
    \/ \E resp \in Responses, took \in RequestTimes : Poll(resp, took)
    \/ TimedOut
    \/ \E resp \in Responses : Download(resp)

NextEL2GO ==
    \/ \E resp \in Responses : GetGenerationStatus(resp)
    \/ \E n \in 0..MaxUuids, max_job_size \in 0..MaxJobSize : SplitUuids(Uuids(n), max_job_size)
    \/ \E download_timeout \in 1..MaxTimeout, delay \in 1..MaxDelay :
           DownloadProvisionings(download_timeout, delay)
    \/ Running

\* A call that runs goes on running: the client is one thread that neither
\* blocks outside time.sleep nor is stopped from outside.
SpecEL2GO == Init /\ [][NextEL2GO]_vars /\ WF_vars(Running)

(***************************************************************************)
(* Properties of the client.                                               *)
(***************************************************************************)
Content == response[1].content
Failed(c) == \E i \in 1..Len(c) : c[i] \in {"GENERATION_FAILED", "PROVISIONING_FAILED"}
Waiting(c) == \E i \in 1..Len(c) : c[i] = "GENERATION_TRIGGERED"
Answered == call = "get_generation_status" /\ response[1].status_code < 400

\* C24: get_generation_status raises whenever some provisioning of the content
\* failed, wherever it stands in the list; it returns GENERATION_TRIGGERED only
\* when none failed and one is still triggered, and GENERATION_COMPLETED only
\* when none failed and none is waiting.
C24_FailsEarly ==
    Answered =>
        /\ Failed(Content) => raised # "ok"
        /\ status = Some("GENERATION_TRIGGERED") => ~Failed(Content) /\ Waiting(Content)
        /\ status = Some("GENERATION_COMPLETED") => ~Failed(Content) /\ ~Waiting(Content)

\* The failing input of C24: a triggered entry before a failed one.
C24_TriggeredBeforeFailed ==
    /\ Answered
    /\ Content = <<"GENERATION_TRIGGERED", "GENERATION_FAILED">>
    /\ raised = "ok"
    /\ status = Some("GENERATION_TRIGGERED")

WaitReturned == pc \in {"download", "done"}
PollStep == pc = "wait" /\ ~overflow /\ vars' # vars
ExitStep == pc = "wait" /\ overflow /\ vars' # vars

\* C25: _wait_for_provisionings returns only after a poll reported an OK state;
\* a poll that reports GENERATION_TRIGGERED is followed by one delay and the
\* next pass of the loop; once the timeout has overflowed the wait raises the
\* timed-out error and does not return; an error from a poll ends the wait at
\* once; nothing is downloaded after a wait that failed or timed out; and the
\* wait does end.
C25_WaitForProvisionings ==
    /\ [](WaitReturned => status # None /\ In(status[1], OK_STATES) /\ raised \in {"ok", "SPSDKHTTPClientError"})
    /\ [][PollStep /\ status' = Some("GENERATION_TRIGGERED") =>
            /\ pc' = "wait"
            /\ raised' = "ok"
            /\ clock' >= clock + client[1].delay]_vars
    /\ [][ExitStep => pc' = "failed" /\ raised' = "TimedOut"]_vars
    /\ [][PollStep /\ raised' # "ok" => pc' = "failed"]_vars
    /\ [][pc = "failed" => pc' = "failed" /\ raised' = raised /\ response' = response]_vars
    /\ [](pc = "done" /\ raised = "SPSDKHTTPClientError" => response[1].status_code >= 400)
    /\ (pc = "wait" ~> pc \in {"failed", "done"})

C25_Witness ==
    /\ pc = "failed"
    /\ raised = "TimedOut"
    /\ status = Some("GENERATION_TRIGGERED")
    /\ clock > client[1].download_timeout
    /\ clock >= 2 * client[1].delay

RECURSIVE Concatenation(_)
Concatenation(jobs) == IF jobs = <<>> THEN <<>> ELSE Head(jobs) \o Concatenation(Tail(jobs))

\* C26: for a non-empty list of n UUIDs and max_job_size >= 1,
\* split_uuids_to_jobs returns ceil(n / max_job_size) jobs, their concatenation
\* is the list, each job holds 1 to max_job_size UUIDs, the sizes are those of
\* calculate_jobs and differ by at most 1.
C26_SplitUuids ==
    (split # None /\ Len(split[1].uuids) >= 1 /\ split[1].max_job_size >= 1) =>
        /\ raised = "ok"
        /\ LET n == Len(split[1].uuids)
               max_job_size == split[1].max_job_size
               jobs == split[1].jobs[1]
           IN  /\ Len(jobs) * max_job_size >= n
               /\ (Len(jobs) - 1) * max_job_size < n
               /\ Concatenation(jobs) = split[1].uuids
               /\ \A k \in 1..Len(jobs) : Len(jobs[k]) >= 1 /\ Len(jobs[k]) <= max_job_size
               /\ [k \in 1..Len(jobs) |-> Len(jobs[k])] = Val(calculate_jobs(n, max_job_size))
               /\ \A k, l \in 1..Len(jobs) : Len(jobs[k]) - Len(jobs[l]) <= 1

C26_Witness ==
    /\ split # None
    /\ raised = "ok"
    /\ split[1].uuids = Uuids(5)
    /\ split[1].max_job_size = 2
    /\ split[1].jobs = Some(<< <<1>>, <<2, 3>>, <<4, 5>> >>)

=============================================================================
